---- MODULE Spec2Model ----
(***************************************************************************)
(* Model of script.py: a GitHub repository tracker.  One run of the        *)
(* process loads versions.json into version_tracking, reads repos.txt and  *)
(* calls track_repository on every line, then exits.  A later run starts   *)
(* again from the files on disk.                                           *)
(*                                                                         *)
(* Strings the code takes apart (repository URLs, record keys) are         *)
(* sequences of one-character strings; dictionaries are functions whose    *)
(* DOMAIN is the set of keys present.                                      *)
(***************************************************************************)
EXTENDS Integers, Sequences, FiniteSets, TLC

\* ---- bounds of the model -------------------------------------------------
MaxEvents == 3      \* process starts, aborts, pushes and releases in a behaviour
MaxAssets == 3      \* assets of a release

\* ---- values --------------------------------------------------------------
\* values are sequences throughout, so that any two of them compare
EmptyDict == << >>
None == << >>
\* a file that does not exist / a file and its content / a file that open(.., "w")
\* has truncated and whose content has not been written: no JSON document
NoFile == [exists |-> FALSE, parsable |-> FALSE, data |-> << >>]
File(data) == [exists |-> TRUE, parsable |-> TRUE, data |-> data]
Truncated == [exists |-> TRUE, parsable |-> FALSE, data |-> << >>]

HTTP_OK == 200
\* requests.get got no response and raises (connection refused, DNS, reset)
NoResponse == 0
\* the outcomes of an HTTP request: 200, some other status, or an exception
StatusCodes == {HTTP_OK, 404}
Outcomes == StatusCodes \cup {NoResponse}

\* dict.get(k, default)
Get(d, k, default) == IF k \in DOMAIN d THEN d[k] ELSE default

\* d[k] = v on a dict
Put(d, k, v) == [x \in (DOMAIN d) \cup {k} |-> IF x = k THEN v ELSE d[x]]

\* ---- string helpers (str.rstrip, str.split, str.join) --------------------
\* s[:n]
Slice(s, n) == SubSeq(s, 1, IF n < Len(s) THEN n ELSE Len(s))

RECURSIVE rstrip(_, _)
rstrip(s, ch) ==
    IF Len(s) > 0 /\ s[Len(s)] = ch
    THEN rstrip(SubSeq(s, 1, Len(s) - 1), ch)
    ELSE s

RECURSIVE split(_, _)
split(s, ch) ==
    IF \E i \in 1..Len(s) : s[i] = ch
    THEN LET i == CHOOSE i \in 1..Len(s) :
                      s[i] = ch /\ \A j \in 1..(i - 1) : s[j] # ch
         IN <<SubSeq(s, 1, i - 1)>> \o split(SubSeq(s, i + 1, Len(s)), ch)
    ELSE <<s>>

\* get_repo_name: owner + "_" + name, the key of the record and the directory
get_repo_name(repo_url) ==
    LET parts == split(rstrip(repo_url, "/"), "/")
    IN parts[Len(parts) - 1] \o <<"_">> \o parts[Len(parts)]

\* "/".join(repo_url.rstrip("/").split("/")[-2:])
owner_repo_of(repo_url) ==
    LET parts == split(rstrip(repo_url, "/"), "/")
    IN parts[Len(parts) - 1] \o <<"/">> \o parts[Len(parts)]

\* ---- the watched repositories -------------------------------------------
UrlA == <<"a", "/", "b", "_", "c">>
UrlB == <<"a", "_", "b", "/", "c">>
UrlD == <<"a", "/", "d">>
UrlDTrail == <<"a", "/", "d", "/">>

Urls == {UrlA, UrlB, UrlD, UrlDTrail}
OwnerRepos == {owner_repo_of(u) : u \in Urls}

\* contents repos.txt can have: missing, one repository
RepoFiles == {NoFile, File(<<UrlA>>)}

\* ---- the provider (GitHub) ----------------------------------------------
\* the hash of the n-th head commit of a repository
sha(repo, n) == <<"sha", repo, n>>

\* the tag of the m-th release; tags are plain version names, so two
\* repositories can publish the same tag
tag_name(m) == <<"v", m>>

AssetNames == <<"A", "B", "C", "D", "E">>

\* how many assets the releases of a repository carry
AssetCount(repo) ==
    CASE repo = owner_repo_of(UrlA) -> MaxAssets
      [] repo = owner_repo_of(UrlD) -> 1
      [] OTHER -> 0

\* browser_download_url of the j-th asset of release m
asset_url(repo, m, j) == <<"dl", repo, tag_name(m), AssetNames[j]>>

VARIABLES
    repos_file,        \* repos.txt: NoFile or the list of lines
    versions_file,     \* versions.json: NoFile or the saved dict
    local_files,       \* the files under github_repos/<key>/: <<key, name>> -> content
    provider,          \* per owner/repo: number of the head commit and of the latest release
    changes,           \* pushes and releases so far
    version_tracking,  \* the global dict of the running process
    pc,                \* position of the process
    repositories,      \* main: the list load_repositories returned
    idx,               \* main: position of the for loop
    latest_commit,     \* track_repository locals
    latest_version,
    release_urls,
    updated,
    message,
    url_i,             \* position of the loop over release_urls
    response,          \* download_file: the body of the response being written
    runs,              \* process starts so far
    aborts,            \* runs ended by a kill or by an exception of requests so far
    sync,              \* what the sync in progress (or the seen one) did
    seen,              \* per owner/repo: what its last saved sync of this run was answered
    prev               \* the run before: how it ended, its seen, and the sync a kill
                       \* interrupted (until that repository's sync is done again)

locals == <<latest_commit, latest_version, release_urls, updated, message, url_i, response>>
disk == <<repos_file, versions_file, local_files>>
\* the events so far: process starts, pushes and releases, aborted runs
Events == runs + changes + aborts

history == <<runs, aborts, sync, seen, prev>>
vars == <<repos_file, versions_file, local_files, provider, changes, version_tracking, pc, repositories, idx,
          latest_commit, latest_version, release_urls, updated, message, url_i, response,
          runs, aborts, sync, seen, prev>>

NotRunning == {"off", "exited", "killed", "crashed", "failed"}

\* ---- get_latest_commit / get_latest_release -----------------------------
get_latest_commit(repo, status) ==
    IF status = HTTP_OK THEN sha(repo, provider[repo].commit) ELSE None

\* returns <<tag, urls>>; a repository without a release answers 404
get_latest_release(repo, status) ==
    IF status = HTTP_OK /\ provider[repo].release > 0
    THEN <<tag_name(provider[repo].release),
           [j \in 1..AssetCount(repo) |-> asset_url(repo, provider[repo].release, j)]>>
    ELSE <<None, << >> >>

\* ---- the record of one sync (history) -----------------------------------
NoSync == [url |-> None, key |-> None, repo |-> None, vt0 |-> EmptyDict, file0 |-> NoFile,
           commit |-> None, release |-> None, urls |-> << >>, downloads |-> << >>,
           written |-> EmptyDict,
           sent |-> << >>,
           ended |-> "none"]

NoRun == [exit |-> "none", seen |-> EmptyDict, sync |-> NoSync]

InitWith(repo_files) ==
    /\ repos_file \in repo_files
    /\ versions_file = NoFile
    /\ local_files = EmptyDict
    /\ provider = [r \in OwnerRepos |-> [commit |-> 1, release |-> 0]]
    /\ changes = 0
    /\ version_tracking = EmptyDict
    /\ pc = "off"
    /\ repositories = << >>
    /\ idx = 1
    /\ latest_commit = None
    /\ latest_version = None
    /\ release_urls = << >>
    /\ updated = FALSE
    /\ message = << >>
    /\ url_i = 1
    /\ response = None
    /\ runs = 0
    /\ aborts = 0
    /\ sync = NoSync
    /\ seen = EmptyDict
    /\ prev = NoRun

Init == InitWith(RepoFiles)

\* a repos.txt that lists two repositories with different keys
PairFiles == {File(<<UrlA, UrlD>>)}
InitPair == InitWith(PairFiles)

\* a repos.txt that lists two repositories with the same key
CollidingFiles == {File(<<UrlA, UrlB>>)}
InitCollision == InitWith(CollidingFiles)

\* a repos.txt that lists one repository twice: once with a trailing slash,
\* or with a repository of the same key between the two occurrences
DuplicateFiles == {File(<<UrlDTrail, UrlD>>), File(<<UrlA, UrlB, UrlA>>)}
InitDuplicates == InitWith(DuplicateFiles)

\* ---- module level, lines 29-34: load versions.json ----------------------
\* a bug: a document that does not parse is read as no document
json_load_lenient(file) == IF file.parsable THEN <<"ok", file.data>> ELSE <<"ok", EmptyDict>>

\* json.load: the document, or JSONDecodeError when the text is not JSON
json_load(file) == IF file.parsable THEN <<"ok", file.data>> ELSE <<"JSONDecodeError", EmptyDict>>

LoadVersions == IF versions_file.exists THEN json_load(versions_file) ELSE <<"ok", EmptyDict>>

\* the process starts; an exception of json.load is caught by nothing and
\* ends it before main is called ("failed")
Start ==
    /\ pc \in NotRunning
    /\ Events < MaxEvents
    /\ version_tracking' = LoadVersions[2]
    /\ pc' = IF LoadVersions[1] = "ok" THEN "main" ELSE "failed"
    /\ runs' = runs + 1
    /\ repositories' = << >>
    /\ idx' = 1
    /\ latest_commit' = None
    /\ latest_version' = None
    /\ release_urls' = << >>
    /\ updated' = FALSE
    /\ message' = << >>
    /\ url_i' = 1
    /\ response' = None
    /\ sync' = NoSync
    /\ prev' = IF runs = 0 THEN NoRun
                ELSE [exit |-> pc, seen |-> seen,
                      sync |-> IF sync.ended = "killed" THEN sync ELSE NoSync]
    /\ seen' = EmptyDict
    /\ UNCHANGED <<disk, provider, changes, aborts>>

\* ---- load_repositories and the head of main -----------------------------
\* a bug: a missing repos.txt is read as a default list
load_repositories_default == IF ~repos_file.exists THEN <<UrlA>> ELSE repos_file.data

load_repositories == IF ~repos_file.exists THEN << >> ELSE repos_file.data

MainLoad ==
    /\ pc = "main"
    /\ repositories' = load_repositories
    /\ repos_file' = IF ~repos_file.exists THEN File(<< >>) ELSE repos_file
    /\ idx' = 1
    /\ pc' = "loop"
    /\ UNCHANGED <<versions_file, local_files, provider, changes, version_tracking, locals, history>>

MainExit ==
    /\ pc = "loop"
    /\ idx > Len(repositories)
    /\ pc' = "exited"
    /\ UNCHANGED <<disk, provider, changes, version_tracking, repositories, idx, locals, history>>

\* ---- track_repository ---------------------------------------------------
repo_url == repositories[idx]
repo_name == get_repo_name(repo_url)
owner_repo == owner_repo_of(repo_url)
file_path(name) == <<repo_name, name>>

\* version_tracking.get(repo_name, {}).get(field)
Stored(vt, key, field) == Get(Get(vt, key, EmptyDict), field, None)

\* download_file, lines 62-64: on status 200 the file is opened for writing
\* (created or truncated: empty); on another status nothing happens and
\* nothing is returned.  An exception of requests.get is not caught (the
\* caller sees it).  files is a set of files, path -> content
download_open(files, dest_path, status) ==
    IF status = HTTP_OK THEN Put(files, dest_path, << >>) ELSE files

\* download_file, lines 65-66 and the end of the with block: the body of the
\* response is in the file
download_file(files, dest_path, body) == Put(files, dest_path, body)

\* what a write of body leaves behind when it stops before the file is
\* closed normally (the stream breaks, the process is ended from outside):
\* nothing yet, a part of the body, or the whole body when it stops after
\* the last chunk
Interrupted(body) == {<< >>, <<"part">> \o body, body}

\* what the write of checksums.txt leaves behind when it stops before the
\* file is closed normally: some of the lines (none under a kill, the lines
\* are in the buffer)
InterruptedLines(lines) == {[name \in names |-> lines[name]] : names \in SUBSET DOMAIN lines}

\* lines 85-98: the two queries and the locals
TrackQuery(commit_status, release_status) ==
    /\ pc = "loop"
    /\ idx <= Len(repositories)
    /\ NoResponse \in {commit_status, release_status} => Events < MaxEvents
    /\ aborts' = IF NoResponse \in {commit_status, release_status} THEN aborts + 1 ELSE aborts
    /\ IF NoResponse \in {commit_status, release_status}
       THEN /\ pc' = "crashed"
            /\ sync' = [NoSync EXCEPT !.url = repo_url, !.key = repo_name, !.repo = owner_repo,
                                      !.vt0 = version_tracking, !.file0 = versions_file,
                                      !.ended = "ConnectionError"]
            /\ UNCHANGED locals
       ELSE /\ latest_commit' = get_latest_commit(owner_repo, commit_status)
            /\ latest_version' = get_latest_release(owner_repo, release_status)[1]
            /\ release_urls' = get_latest_release(owner_repo, release_status)[2]
            /\ updated' = FALSE
            /\ message' = << <<"Repository Updated", repo_name>> >>
            /\ url_i' = 1
            /\ response' = None
            /\ pc' = "commit"
            /\ sync' = [NoSync EXCEPT !.url = repo_url, !.key = repo_name, !.repo = owner_repo,
                                      !.vt0 = version_tracking, !.file0 = versions_file,
                                      !.commit = latest_commit', !.release = latest_version',
                                      !.urls = release_urls', !.ended = "running"]
    /\ UNCHANGED <<disk, provider, changes, version_tracking, repositories, idx,
                   runs,  seen, prev>>

\* a bug: the stored commit is not compared
commit_changed_any == latest_commit # None

commit_changed == latest_commit # None /\ Stored(version_tracking, repo_name, "commit") # latest_commit

\* lines 101-105: the test of the commit branch and the request of the
\* snapshot; after an answer other than 200 download_file returns at once and
\* lines 106-108 follow
TrackCommit(status) ==
    /\ pc = "commit"
    /\ status = NoResponse => Events < MaxEvents
    /\ aborts' = IF status = NoResponse /\ commit_changed THEN aborts + 1 ELSE aborts
    /\ IF commit_changed
       THEN /\ local_files' = download_open(local_files, file_path("source.zip"), status)
            /\ sync' = [sync EXCEPT
                   !.downloads = Append(@, [what |-> latest_commit, status |-> status]),
                   !.written = download_open(@, file_path("source.zip"), status),
                   !.ended = IF status = NoResponse THEN "ConnectionError" ELSE @]
            /\ response' = IF status = HTTP_OK
                           THEN sha(owner_repo, provider[owner_repo].commit) ELSE None
            /\ CASE status = NoResponse ->
                       /\ pc' = "crashed"
                       /\ UNCHANGED <<version_tracking, message, updated>>
                 [] status = HTTP_OK ->
                       /\ pc' = "zip"
                       /\ UNCHANGED <<version_tracking, message, updated>>
                 [] OTHER ->
                       /\ version_tracking' = Put(version_tracking, repo_name,
                              Put(Get(version_tracking, repo_name, EmptyDict), "commit", latest_commit))
                       /\ message' = Append(message, <<"New Commit", Slice(latest_commit, 7)>>)
                       /\ updated' = TRUE
                       /\ pc' = "release"
       ELSE /\ status = HTTP_OK
            /\ pc' = "release"
            /\ UNCHANGED <<local_files, version_tracking, message, updated, sync, response>>
    /\ UNCHANGED <<repos_file, versions_file, provider, changes, repositories, idx,
                   latest_commit, latest_version, release_urls, url_i, runs,
                   seen, prev>>

\* lines 65-66 for the snapshot, then lines 106-108; when the stream breaks
\* (iter_content raises) the exception ends the process
TrackCommitWrite(ok) ==
    /\ pc = "zip"
    /\ ~ok => Events < MaxEvents
    /\ aborts' = IF ok THEN aborts ELSE aborts + 1
    /\ response' = None
    /\ IF ok
       THEN /\ local_files' = download_file(local_files, file_path("source.zip"), response)
            /\ sync' = [sync EXCEPT
                   !.written = download_file(@, file_path("source.zip"), response)]
            /\ version_tracking' = Put(version_tracking, repo_name,
                   Put(Get(version_tracking, repo_name, EmptyDict), "commit", latest_commit))
            /\ message' = Append(message, <<"New Commit", Slice(latest_commit, 7)>>)
            /\ updated' = TRUE
            /\ pc' = "release"
       ELSE /\ \E part \in Interrupted(response) :
                   /\ local_files' = download_file(local_files, file_path("source.zip"), part)
                   /\ sync' = [sync EXCEPT
                          !.written = download_file(@, file_path("source.zip"), part),
                          !.ended = "ConnectionError"]
            /\ pc' = "crashed"
            /\ UNCHANGED <<version_tracking, message, updated>>
    /\ UNCHANGED <<repos_file, versions_file, provider, changes, repositories, idx,
                   latest_commit, latest_version, release_urls, url_i, runs,
                   seen, prev>>

release_changed == latest_version # None /\ Stored(version_tracking, repo_name, "release") # latest_version

\* line 111: the test of the release branch
TrackRelease ==
    /\ pc = "release"
    /\ url_i' = 1
    /\ pc' = IF release_changed THEN "asset" ELSE "checksums"
    /\ UNCHANGED <<disk, provider, changes, version_tracking, repositories, idx,
                   latest_commit, latest_version, release_urls, updated, message, response,
                   history>>

\* the file of the asset the loop over release_urls is at
asset_path == file_path(release_urls[url_i][Len(release_urls[url_i])])

\* lines 112-116: one turn of the loop over release_urls, up to the answer
\* to the request; after an answer other than 200 the turn is over
TrackAsset(status) ==
    /\ pc = "asset"
    /\ url_i <= Len(release_urls)
    /\ status = NoResponse => Events < MaxEvents
    /\ aborts' = IF status = NoResponse THEN aborts + 1 ELSE aborts
    /\ local_files' = download_open(local_files, asset_path, status)
    /\ sync' = [sync EXCEPT
           !.downloads = Append(@, [what |-> release_urls[url_i], status |-> status]),
           !.written = download_open(@, asset_path, status),
           !.ended = IF status = NoResponse THEN "ConnectionError" ELSE @]
    /\ response' = IF status = HTTP_OK THEN release_urls[url_i] ELSE None
    /\ pc' = CASE status = NoResponse -> "crashed"
                [] status = HTTP_OK -> "asset_write"
                [] OTHER -> "asset"
    /\ url_i' = IF status \in {NoResponse, HTTP_OK} THEN url_i ELSE url_i + 1
    /\ UNCHANGED <<repos_file, versions_file, provider, changes, version_tracking, repositories, idx,
                   latest_commit, latest_version, release_urls, updated, message,
                   runs, seen, prev>>

\* lines 65-66 for an asset, then the next turn of the loop; when the stream
\* breaks the exception ends the process
TrackAssetWrite(ok) ==
    /\ pc = "asset_write"
    /\ ~ok => Events < MaxEvents
    /\ aborts' = IF ok THEN aborts ELSE aborts + 1
    /\ response' = None
    /\ IF ok
       THEN /\ local_files' = download_file(local_files, asset_path, response)
            /\ sync' = [sync EXCEPT !.written = download_file(@, asset_path, response)]
            /\ url_i' = url_i + 1
            /\ pc' = "asset"
       ELSE /\ \E part \in Interrupted(response) :
                   /\ local_files' = download_file(local_files, asset_path, part)
                   /\ sync' = [sync EXCEPT !.written = download_file(@, asset_path, part),
                                           !.ended = "ConnectionError"]
            /\ url_i' = url_i
            /\ pc' = "crashed"
    /\ UNCHANGED <<repos_file, versions_file, provider, changes, version_tracking, repositories, idx,
                   latest_commit, latest_version, release_urls, updated, message,
                   runs, seen, prev>>

\* lines 117-119: version_tracking[repo_name]["release"] = ...; a KeyError
\* when the repository has no record yet ends the process
TrackReleaseSet ==
    /\ pc = "asset"
    /\ url_i > Len(release_urls)
    /\ IF repo_name \in DOMAIN version_tracking
       THEN /\ version_tracking' = Put(version_tracking, repo_name,
                   Put(version_tracking[repo_name], "release", latest_version))
            /\ message' = Append(message, <<"New Release", latest_version>>)
            /\ updated' = TRUE
            /\ pc' = "checksums"
            /\ UNCHANGED sync
       ELSE /\ pc' = "crashed"
            /\ sync' = [sync EXCEPT !.ended = "KeyError"]
            /\ UNCHANGED <<version_tracking, message, updated>>
    /\ UNCHANGED <<disk, provider, changes, repositories, idx, latest_commit, latest_version,
                   release_urls, url_i, response, runs, aborts,  seen, prev>>

\* send_telegram_message: every exception of the bot is caught
send_telegram_message(log, text, ok) == Append(log, [text |-> text, ok |-> ok])

\* the lines of a message after its title: what it announces
Announced(text) == {text[i] : i \in 2..Len(text)}

\* calculate_checksum: the SHA256 of a content (one value per content)
calculate_checksum(data) == <<"sha256", data>>

\* lines 123-128: checksums.txt is opened for writing (created or truncated),
\* then gets one line per file of the directory, itself included: its own
\* line is the checksum of the empty file, its lines being still in the
\* buffer when it is read.  iterdir gives no order: a name -> checksum map
checksums_txt(files, key) ==
    LET opened == Put(files, <<key, "checksums.txt">>, << >>)
        names == {path[2] : path \in {q \in DOMAIN opened : q[1] = key}}
    IN [name \in names |-> calculate_checksum(opened[<<key, name>>])]

\* lines 122-124: when the sync updated something, checksums.txt is opened
\* for writing: it exists, empty
TrackChecksumsOpen ==
    /\ pc = "checksums"
    /\ IF updated
       THEN /\ local_files' = Put(local_files, file_path("checksums.txt"), << >>)
            /\ sync' = [sync EXCEPT !.written = Put(@, file_path("checksums.txt"), << >>)]
            /\ pc' = "checksums_write"
       ELSE /\ pc' = "notify"
            /\ UNCHANGED <<local_files, sync>>
    /\ UNCHANGED <<repos_file, versions_file, provider, changes, version_tracking, repositories, idx,
                   locals, runs, aborts, seen, prev>>

\* lines 125-129: the lines are computed and, at the end of the with block,
\* reach the file
TrackChecksums ==
    /\ pc = "checksums_write"
    /\ local_files' = Put(local_files, file_path("checksums.txt"),
                          checksums_txt(local_files, repo_name))
    /\ sync' = [sync EXCEPT !.written = Put(@, file_path("checksums.txt"),
                                            checksums_txt(local_files, repo_name))]
    /\ pc' = "notify"
    /\ UNCHANGED <<repos_file, versions_file, provider, changes, version_tracking, repositories, idx,
                   locals, runs, aborts, seen, prev>>

\* line 132: the notification, when the sync updated something
TrackNotify(ok) ==
    /\ pc = "notify"
    /\ IF updated
       THEN /\ sync' = [sync EXCEPT !.sent = send_telegram_message(@, message, ok)]
       ELSE /\ ok
            /\ UNCHANGED sync
    /\ pc' = "save"
    /\ UNCHANGED <<repos_file, versions_file, local_files, provider, changes, version_tracking, repositories, idx,
                   locals, runs, aborts, seen, prev>>

\* line 135: open(VERSIONS_FILE, "w") truncates versions.json
TrackOpen ==
    /\ pc = "save"
    /\ versions_file' = Truncated
    /\ pc' = "dump"
    /\ UNCHANGED <<repos_file, local_files, provider, changes, version_tracking, repositories, idx,
                   locals, history>>

\* line 136 and the end of the with block: the whole mapping is written;
\* back to the for loop
TrackSave ==
    /\ pc = "dump"
    /\ versions_file' = File(version_tracking)
    /\ idx' = idx + 1
    /\ pc' = "loop"
    /\ sync' = [sync EXCEPT !.ended = "saved"]
    /\ seen' = Put(seen, owner_repo, [commit |-> latest_commit, release |-> latest_version])
    /\ prev' = [prev EXCEPT !.sync = IF @.repo = owner_repo THEN NoSync ELSE @]
    /\ UNCHANGED <<repos_file, local_files, provider, changes, version_tracking, repositories,
                   locals, runs, aborts>>

\* ---- the environment ----------------------------------------------------
Listed == {owner_repo_of(repos_file.data[i]) : i \in 1..Len(repos_file.data)}

\* the file a download is writing
download_path == IF pc = "zip" THEN file_path("source.zip") ELSE asset_path

\* the process is ended from outside (SIGKILL, SIGTERM, a power cut, or
\* SIGINT, which raises KeyboardInterrupt that nothing catches) at any point
\* of a run.  A file that is being written stays as
\* far as it got: a download has the chunks written so far; checksums.txt,
\* whose lines are in the buffer, stays empty under a kill and gets the lines
\* written so far when KeyboardInterrupt leaves the with block;
\* versions.json stays an incomplete document (Truncated), which does not
\* parse.  An abort (this one, or an exception of requests) is one of
\* the MaxEvents events of a behaviour
Kill ==
    /\ pc \notin NotRunning
    /\ Events < MaxEvents
    /\ pc' = "killed"
    /\ aborts' = aborts + 1
    /\ IF pc \in {"zip", "asset_write"}
       THEN \E part \in Interrupted(response) :
               /\ local_files' = download_file(local_files, download_path, part)
               /\ sync' = [sync EXCEPT !.written = download_file(@, download_path, part),
                                       !.ended = "killed"]
       ELSE IF pc = "checksums_write"
       THEN \E part \in InterruptedLines(checksums_txt(local_files, repo_name)) :
               /\ local_files' = Put(local_files, file_path("checksums.txt"), part)
               /\ sync' = [sync EXCEPT !.written = Put(@, file_path("checksums.txt"), part),
                                       !.ended = "killed"]
       ELSE /\ sync' = IF sync.ended = "running" THEN [sync EXCEPT !.ended = "killed"] ELSE sync
            /\ UNCHANGED local_files
    /\ UNCHANGED <<repos_file, versions_file, provider, changes, version_tracking, repositories,
                   idx, locals, runs,  seen, prev>>

\* a push to main
ProviderPush(repo) ==
    /\ repo \in Listed
    /\ Events < MaxEvents
    /\ provider' = [provider EXCEPT ![repo].commit = @ + 1]
    /\ changes' = changes + 1
    /\ UNCHANGED <<disk, version_tracking, pc, repositories, idx, locals, history>>

\* a release is published
ProviderRelease(repo) ==
    /\ repo \in Listed
    /\ Events < MaxEvents
    /\ provider' = [provider EXCEPT ![repo].release = @ + 1]
    /\ changes' = changes + 1
    /\ UNCHANGED <<disk, version_tracking, pc, repositories, idx, locals, history>>

Next ==
    \/ Start
    \/ MainLoad
    \/ MainExit
    \/ \E cs \in Outcomes, rs \in Outcomes : TrackQuery(cs, rs)
    \/ \E st \in Outcomes : TrackCommit(st)
    \/ \E ok \in BOOLEAN : TrackCommitWrite(ok)
    \/ TrackRelease
    \/ \E st \in Outcomes : TrackAsset(st)
    \/ \E ok \in BOOLEAN : TrackAssetWrite(ok)
    \/ TrackReleaseSet
    \/ TrackChecksumsOpen
    \/ TrackChecksums
    \/ \E ok \in BOOLEAN : TrackNotify(ok)
    \/ TrackOpen
    \/ TrackSave
    \/ Kill
    \/ \E r \in OwnerRepos : ProviderPush(r)
    \/ \E r \in OwnerRepos : ProviderRelease(r)

\* ==== the claims ==========================================================
\* what versions.json held when the sync began, as load would read it
Before == sync.file0.data
\* the records versions.json holds now (none when it is missing or truncated)
After == versions_file.data

SyncActive == sync.ended # "none"
SyncSaved == sync.ended = "saved"

IsAsset(what) == what[1] = "dl"
\* the download of `what` in this sync was answered 200
Fetched(what) == \E i \in DOMAIN sync.downloads :
                     sync.downloads[i].what = what /\ sync.downloads[i].status = HTTP_OK
\* download_file was called for `what` in this sync
Requested(what) == \E i \in DOMAIN sync.downloads : sync.downloads[i].what = what
SendSucceeded == \E i \in DOMAIN sync.sent : sync.sent[i].ok
SendFailed == \E i \in DOMAIN sync.sent : ~sync.sent[i].ok
AssetsOfSync == {sync.urls[j] : j \in DOMAIN sync.urls}

\* C1: the stored commit (release) of a repository changes in a sync only if
\* the download of the snapshot (of every asset) was answered 200 and the
\* notification of that sync was delivered.
C1_AdvanceOnlyAfterFetchAndRelay ==
    SyncSaved =>
        /\ Stored(After, sync.key, "commit") # Stored(Before, sync.key, "commit")
             => Fetched(Stored(After, sync.key, "commit")) /\ SendSucceeded
        /\ Stored(After, sync.key, "release") # Stored(Before, sync.key, "release")
             => (\A u \in AssetsOfSync : Fetched(u)) /\ SendSucceeded

\* the sends of this sync whose message carries `line`
SendsOf(line) == {i \in DOMAIN sync.sent : line \in Announced(sync.sent[i].text)}
CommitLine(c) == <<"New Commit", Slice(c, 7)>>
ReleaseLine(v) == <<"New Release", v>>
CommitWasNew == sync.commit # None /\ Stored(sync.vt0, sync.key, "commit") # sync.commit

\* C2: when a repository answers the same head commit in two consecutive
\* runs, the notification of that commit is sent once over both: once by the
\* sync that finds it new, never by a sync of the run after.
C2_SameCommitNotifiedOnce ==
    /\ (SyncSaved /\ CommitWasNew) => Cardinality(SendsOf(CommitLine(sync.commit))) = 1
    /\ (SyncActive /\ sync.commit # None /\ sync.repo \in DOMAIN prev.seen
           /\ prev.seen[sync.repo].commit = sync.commit)
         => /\ ~Requested(sync.commit)
            /\ SendsOf(CommitLine(sync.commit)) = {}

\* C3: after a kill at any point of a repository's sync and a restart against
\* an unchanged provider, the sync of that repository downloads nothing the
\* interrupted sync had downloaded and announces nothing it had announced.
C3_AtMostOnceAcrossCrash ==
    (prev.exit = "killed" /\ changes = 0 /\ SyncActive /\ sync.repo = prev.sync.repo)
        => /\ \A i \in DOMAIN sync.downloads, j \in DOMAIN prev.sync.downloads :
                  ~ /\ sync.downloads[i] = prev.sync.downloads[j]
                    /\ sync.downloads[i].status = HTTP_OK
           /\ \A i \in DOMAIN sync.sent, j \in DOMAIN prev.sync.sent :
                  Announced(sync.sent[i].text) \cap Announced(prev.sync.sent[j].text) = {}

\* C4: after a kill that follows the save of a repository's sync, a restart
\* that is answered the same commit and release for that repository fetches
\* nothing and sends nothing for it.
C4_NoReplayAfterRestart ==
    (SyncActive /\ prev.exit = "killed" /\ sync.repo \in DOMAIN prev.seen
        /\ prev.seen[sync.repo].commit = sync.commit
        /\ prev.seen[sync.repo].release = sync.release)
      => sync.downloads = << >> /\ sync.sent = << >>

\* the first sync of a repository with a commit and a release, from no
\* versions.json, every download answered 200 and the send delivered
FirstRunAllOk ==
    /\ SyncSaved
    /\ ~sync.file0.exists
    /\ sync.commit # None
    /\ sync.release # None
    /\ \A i \in DOMAIN sync.downloads : sync.downloads[i].status = HTTP_OK
    /\ ~SendFailed

RecordOf(c, v) == Put(Put(EmptyDict, "commit", c), "release", v)

\* C5 as claimed: the first run relays the snapshot once and every asset once
\* (1 + n sends), and stores {commit: c1, release: v1}.
C5_FirstRunRelaysEveryArtifact ==
    FirstRunAllOk =>
        /\ Len(sync.sent) = 1 + Len(sync.urls)
        /\ After[sync.key] = RecordOf(sync.commit, sync.release)

\* the queried commit and release are the stored ones (or no release is reported)
NothingNew ==
    /\ SyncActive
    /\ sync.commit = Stored(sync.vt0, sync.key, "commit")
    /\ sync.release = None \/ sync.release = Stored(sync.vt0, sync.key, "release")

\* C6: a sync that is answered the stored commit and the stored release (or no
\* release) downloads nothing, sends nothing and leaves the version mapping,
\* in memory and on disk, as it was.
C6_NoOpCycle ==
    NothingNew =>
        /\ sync.downloads = << >>
        /\ sync.sent = << >>
        /\ version_tracking = sync.vt0
        /\ SyncSaved => After = Before

C6_Witness ==
    /\ NothingNew
    /\ SyncSaved
    /\ sync.commit # None
    /\ sync.release # None
    /\ Len(sync.urls) > 0

SyncOver == sync.ended \in {"saved", "KeyError", "ConnectionError"}
AssetFetchFailed == \E i \in DOMAIN sync.downloads :
                        IsAsset(sync.downloads[i].what) /\ sync.downloads[i].status # HTTP_OK

\* C7: when the fetch of one asset of a changed release fails, every other
\* asset of the release is still requested in that sync and the release is
\* still relayed (the only relay the code has: the sync's notification).
C7_AssetFailuresIndependent ==
    (SyncOver /\ AssetFetchFailed)
        => /\ \A u \in AssetsOfSync : Requested(u)
           /\ SendsOf(ReleaseLine(sync.release)) # {}

\* C8: a run that ends on its own has synced every listed repository: no
\* failure inside one repository's sync ends the pass over the list.
C8_FailureNeverEndsCycle ==
    pc \in {"exited", "crashed"} => idx > Len(repositories)

\* C9: a sync whose head-commit query returned no commit downloads nothing,
\* sends nothing and leaves the version mapping as it was, whatever the
\* release query returned.
C9_CommitQueryFailureIsNoOp ==
    (SyncActive /\ sync.ended # "ConnectionError" /\ sync.commit = None)
        => /\ sync.downloads = << >>
           /\ sync.sent = << >>
           /\ version_tracking = sync.vt0
           /\ SyncSaved => After = Before

\* C10: a sync whose notification fails does not advance the stored version
\* (so that the next run detects the change again and retries).
C10_FailedSendKeepsVersion ==
    (SyncSaved /\ SendFailed) => Stored(After, sync.key, "commit") = Stored(Before, sync.key, "commit")
                                 /\ Stored(After, sync.key, "release") = Stored(Before, sync.key, "release")

\* C11: the scheduler runs forever: the process never exits on its own after
\* a completed pass over the repository list (it sleeps, re-reads the list and
\* starts another pass).
C11_SchedulerRunsForever == pc # "exited"

Unparsable(file) == file.exists /\ ~file.parsable

\* C12: a versions.json that exists and does not parse halts the startup: no
\* step of main or of a sync runs on it, the failed process has synced no
\* repository, and a process that did start holds the mapping of the file
\* (the empty mapping only for a missing file or an empty document).
C12_UnparsableVersionsHaltStartup ==
    /\ Unparsable(versions_file) => pc \in {"dump", "killed", "failed"}
    /\ pc = "failed" => Unparsable(versions_file) /\ sync = NoSync /\ repositories = << >>
    /\ pc = "main" => /\ version_tracking = versions_file.data
                      /\ versions_file.exists => versions_file.parsable

C12_Witness == pc = "failed" /\ Unparsable(versions_file) /\ runs >= 2

\* the mapping as the last completed sync of this run left it
MappingOfEarlierSyncs == IF SyncSaved THEN version_tracking ELSE sync.vt0

\* C13: the whole mapping is saved at the end of every sync, so a run that is
\* killed or crashes after its first k-1 syncs leaves versions.json holding
\* the mapping as those k-1 syncs left it: at most the update of the sync in
\* progress is lost.
C13_CrashKeepsEarlierSyncs ==
    (pc \in {"killed", "crashed"} /\ idx > 1)
        => versions_file = File(MappingOfEarlierSyncs)

ReleaseWasNew == sync.release # None /\ Stored(sync.vt0, sync.key, "release") # sync.release
\* the loop over the assets of the release has run to its end
ReleaseProcessed == /\ sync.ended \in {"saved", "KeyError"}
                    /\ ReleaseWasNew
                    /\ \A u \in AssetsOfSync : Requested(u)

\* C14: once the assets of a changed release have been gone through, the
\* stored release is the new tag, whatever the asset downloads were answered;
\* and a sync of a later run that is answered the tag of the repository's
\* last saved sync requests no asset and announces no release.
C14_ReleaseAdvancedRegardless ==
    /\ ReleaseProcessed => Stored(version_tracking, sync.key, "release") = sync.release
    /\ (SyncActive /\ sync.release # None /\ sync.repo \in DOMAIN prev.seen
           /\ prev.seen[sync.repo].release = sync.release)
         => /\ \A u \in AssetsOfSync : ~Requested(u)
            /\ SendsOf(ReleaseLine(sync.release)) = {}

\* C15: the release branch is taken exactly when the queried tag is present
\* and differs from the stored one, whatever the commit query returned and
\* whether or not the repository has a record: a sync that runs to its end on
\* a new tag requests every asset and stores the tag, and a sync that is
\* answered no tag or the stored tag requests no asset and leaves the stored
\* release as it was.
C15_ReleaseBranchIndependent ==
    /\ (sync.ended \in {"saved", "KeyError"} /\ ReleaseWasNew)
         => /\ \A u \in AssetsOfSync : Requested(u)
            /\ Stored(version_tracking, sync.key, "release") = sync.release
    /\ (SyncActive /\ ~ReleaseWasNew)
         => /\ \A i \in DOMAIN sync.downloads : ~IsAsset(sync.downloads[i].what)
            /\ Stored(version_tracking, sync.key, "release") = Stored(sync.vt0, sync.key, "release")

\* C16: load_repositories on a missing repos.txt creates an empty repos.txt
\* and returns no repository; the pass over the empty list is over at once,
\* with no query, download or send and with the mapping as it was loaded.
C16_MissingListIsEmptyCycle ==
    /\ [][(pc = "main" /\ pc' = "loop" /\ ~repos_file.exists)
             => (repos_file' = File(<< >>) /\ repositories' = << >>)]_vars
    /\ []((pc \in {"loop", "exited"} /\ repositories = << >>)
             => /\ idx > Len(repositories)
                /\ sync = NoSync
                /\ seen = EmptyDict
                /\ version_tracking = versions_file.data)

C16_Witness == pc = "exited" /\ repos_file = File(<< >>) /\ repositories = << >> /\ runs = 1

\* C17: a sync of repository R changes no record of another listed
\* repository (a different owner/name): its record in memory stays what it
\* was when the sync began, and so does its saved record once the sync is saved.
C17_SyncChangesOnlyOwnRecord ==
    SyncActive =>
        \A i \in DOMAIN repositories :
            owner_repo_of(repositories[i]) # sync.repo
              => LET key == get_repo_name(repositories[i])
                 IN /\ Get(version_tracking, key, None) = Get(sync.vt0, key, None)
                    /\ SyncSaved => Get(After, key, None) = Get(Before, key, None)

\* C18: get_repo_name is injective in the repository identity: two listed
\* URLs with different owner/name get different keys.
C18_KeyInjective ==
    \A i \in DOMAIN repositories, j \in DOMAIN repositories :
        owner_repo_of(repositories[i]) # owner_repo_of(repositories[j])
          => get_repo_name(repositories[i]) # get_repo_name(repositories[j])

\* the sync in progress is of a list entry whose repository an earlier entry
\* of this run's list names too, and it was answered what the saved sync of
\* that earlier entry was answered
LaterOccurrenceSameAnswers ==
    /\ SyncActive /\ ~SyncSaved
    /\ \E j \in 1..(idx - 1) : owner_repo_of(repositories[j]) = sync.repo
    /\ sync.repo \in DOMAIN seen
    /\ seen[sync.repo] = [commit |-> sync.commit, release |-> sync.release]

\* C19: when a repository is listed more than once, a later occurrence that
\* is answered the same commit and release as the earlier one of the same run
\* downloads nothing and sends nothing: only the first occurrence does.
C19_DuplicateEntrySyncsOnce ==
    LaterOccurrenceSameAnswers => sync.downloads = << >> /\ sync.sent = << >>

Spec == Init /\ [][Next]_vars

\* the same program on a list of two repositories with different keys
SpecPair == InitPair /\ [][Next]_vars

\* the same program on a list of two repositories with the same key
SpecCollision == InitCollision /\ [][Next]_vars

\* the same program on a list with a duplicate entry
SpecDuplicates == InitDuplicates /\ [][Next]_vars
====

